---- MODULE Spec2Model ----
(***************************************************************************)
(* Model of neurallog_auth_client.AuthClient (sdk/python): a thin HTTP     *)
(* facade over a remote authorization service with a cachetools.TTLCache   *)
(* of prior check results.                                                 *)
(*                                                                         *)
(* Strings are TLA+ strings, so the cache key is the real concatenation    *)
(* the f-string builds.  JSON values are encoded as strings: "true",       *)
(* "false", "nonbool" (a JSON value that is not a boolean, e.g. "yes") and *)
(* "absent" (the field is missing).                                        *)
(*                                                                         *)
(* The monotonic clock is the variable now.  A handler reads the clock     *)
(* each time it touches the cache; the clock may advance between the two   *)
(* cache accesses of one call (by d \in Delay) and between calls (Tick).   *)
(***************************************************************************)
EXTENDS Integers, Sequences, FiniteSets, TLC

\* ---- bounds of the model -------------------------------------------------
MaxSize == 2
MaxTtl == 2
MaxTime == 2
MaxCallers == 2

\* ---- inputs --------------------------------------------------------------
Tenant == "t"
Users == {"a", "a:b"}
Permissions == {"read", "b:reader"}
Resources == {"d"}
Delay == 0 .. 1
Callers == 1 .. MaxCallers
AllPermissions == {"read", "write", "admin", "owner", "x"}
\* the contextual_tuples argument: None, an empty list, a list of one tuple
ContextualTuples == {"None", "[]", "[m]"}
\* the token argument: "" is None (or any falsy token)
Tokens == {"", "s3cret"}

\* ---- remote outcomes -----------------------------------------------------
\* code "error" is a transport failure (requests.post raises); kind is the
\* shape of the body: a JSON object or another JSON value (.get then raises).
Body(kind, allowed, st) == [kind |-> kind, allowed |-> allowed, status |-> st]
Resp(code, body) == [code |-> code, body |-> body]
NoBody == Body("none", "absent", "absent")
CheckResponses ==
    {Resp("error", NoBody), Resp("500", Body("object", "true", "absent")),
     Resp("200", Body("array", "absent", "absent"))}
    \cup {Resp("200", Body("object", a, "absent")) :
             a \in {"true", "false", "nonbool", "absent"}}
MutateResponses ==
    {Resp("error", NoBody), Resp("500", Body("object", "absent", "success")),
     Resp("200", Body("array", "absent", "absent"))}
    \cup {Resp("200", Body("object", "absent", s)) : s \in {"success", "error"}}

VARIABLES cache_maxsize, cache_ttl, cache, now, last, history, ref, invalidated,
          token, remote, procs, born

vars == <<cache_maxsize, cache_ttl, cache, now, last, history, ref, invalidated,
          token, remote, procs, born>>

\* ---- pure helpers of the client -------------------------------------------
\* faulty variant: a row of the table names the wrong relation
_map_permission_to_relation_slip(permission) ==
    CASE permission = "read" -> "reader"
      [] permission = "write" -> "reader"
      [] permission = "admin" -> "admin"
      [] permission = "owner" -> "owner"
      [] OTHER -> permission

_map_permission_to_relation(permission) ==
    CASE permission = "read" -> "reader"
      [] permission = "write" -> "writer"
      [] permission = "admin" -> "admin"
      [] permission = "owner" -> "owner"
      [] OTHER -> permission

_get_cache_key(user, relation, resource) ==
    Tenant \o ":" \o user \o ":" \o relation \o ":" \o resource

\* ---- cachetools.TTLCache(maxsize, ttl), cachetools 5.x semantics ----------
\* data: key -> value; expires: key -> expiry time of the key's link;
\* links: the keys in least-recently-used order (the OrderedDict __links);
\* ring: the keys in expiry order (the doubly linked list from __root).
Remove(seq, k) == SelectSeq(seq, LAMBDA x : x # k)

Put(f, k, v) == [x \in (DOMAIN f) \cup {k} |-> IF x = k THEN v ELSE f[x]]

Drop(f, k) == [x \in (DOMAIN f) \ {k} |-> f[x]]

EmptyFn == [x \in {} |-> x]

Restrict(f, S) == [x \in (DOMAIN f) \cap S |-> f[x]]

EmptyCache == [data |-> EmptyFn, expires |-> EmptyFn, links |-> <<>>, ring |-> <<>>]

\* Cache.__delitem__ plus the removal of the key's link
Unlink(c, k) ==
    [data |-> Drop(c.data, k), expires |-> Drop(c.expires, k),
     links |-> Remove(c.links, k), ring |-> Remove(c.ring, k)]

\* TTLCache.__getlink: look the link up and mark it most recently used
MoveToEnd(links, k) == Append(Remove(links, k), k)

\* faulty variant: an entry counts as expired one tick before its expiry time
Contains_early(c, k, t) == k \in DOMAIN c.expires /\ t + 1 < c.expires[k]

\* TTLCache.__contains__: no reordering, one read of the timer
Contains(c, k, t) == k \in DOMAIN c.expires /\ t < c.expires[k]

\* TTLCache.expire(time): drop links from the head of the ring while expired
RECURSIVE Expire(_, _)
Expire(c, t) ==
    IF c.ring # <<>> /\ ~(t < c.expires[Head(c.ring)])
    THEN Expire(Unlink(c, Head(c.ring)), t)
    ELSE c

\* TTLCache.popitem under an already entered timer: the first key of links
PopItem(c, t) == Unlink(Expire(c, t), Head(Expire(c, t).links))

\* the while loop of Cache.__setitem__ (every value has size 1)
RECURSIVE MakeRoom(_, _, _)
MakeRoom(c, t, maxsize) ==
    IF Cardinality(DOMAIN c.data) + 1 > maxsize
    THEN MakeRoom(PopItem(c, t), t, maxsize)
    ELSE c

\* faulty variant: a hit restarts the entry's time-to-live
GetItem_sliding(c, k, t) ==
    IF k \notin DOMAIN c.expires \/ ~(t < c.expires[k])
    THEN [cache |-> c, raised |-> TRUE, value |-> "none"]
    ELSE [cache |-> [c EXCEPT !.links = MoveToEnd(c.links, k),
                              !.ring = MoveToEnd(c.ring, k),
                              !.expires[k] = t + cache_ttl],
          raised |-> FALSE, value |-> c.data[k]]

\* faulty variant: a hit does not mark the entry as recently used
GetItem_unordered(c, k, t) ==
    IF k \notin DOMAIN c.expires \/ ~(t < c.expires[k])
    THEN [cache |-> c, raised |-> TRUE, value |-> "none"]
    ELSE [cache |-> c, raised |-> FALSE, value |-> c.data[k]]

\* TTLCache.__getitem__: raises KeyError (through __missing__) for a key that
\* is absent or whose link has expired; a present key is moved to the end of
\* links before the expiry test.
GetItem(c, k, t) ==
    IF k \notin DOMAIN c.expires
    THEN [cache |-> c, raised |-> TRUE, value |-> "none"]
    ELSE LET c1 == [c EXCEPT !.links = MoveToEnd(c.links, k)]
         IN  IF ~(t < c.expires[k])
             THEN [cache |-> c1, raised |-> TRUE, value |-> "none"]
             ELSE [cache |-> c1, raised |-> FALSE, value |-> c.data[k]]

\* faulty variant: the expiry time is one tick too late
SetItem_long(c, k, v, t, maxsize, ttl) ==
    LET c1 == Expire(c, t)
    IN  IF 1 > maxsize
        THEN [cache |-> c1, raised |-> TRUE]
        ELSE LET c2 == IF k \notin DOMAIN c1.data
                       THEN MakeRoom(c1, t, maxsize) ELSE c1
             IN  [cache |-> [data |-> Put(c2.data, k, v),
                             expires |-> Put(c2.expires, k, t + ttl + 1),
                             links |-> MoveToEnd(c2.links, k),
                             ring |-> Append(Remove(c2.ring, k), k)],
                  raised |-> FALSE]

\* TTLCache.__setitem__: expire, then Cache.__setitem__ (ValueError when the
\* value's size 1 exceeds maxsize), then (re)link with expires = time + ttl.
SetItem(c, k, v, t, maxsize, ttl) ==
    LET c1 == Expire(c, t)
    IN  IF 1 > maxsize
        THEN [cache |-> c1, raised |-> TRUE]
        ELSE LET c2 == IF k \notin DOMAIN c1.data
                       THEN MakeRoom(c1, t, maxsize) ELSE c1
             IN  [cache |-> [data |-> Put(c2.data, k, v),
                             expires |-> Put(c2.expires, k, t + ttl),
                             links |-> MoveToEnd(c2.links, k),
                             ring |-> Append(Remove(c2.ring, k), k)],
                  raised |-> FALSE]

\* TTLCache.__delitem__: KeyError for an absent key; a present key is removed
\* and KeyError is raised afterwards when its link had already expired.
DelItem(c, k, t) ==
    IF k \notin DOMAIN c.data
    THEN [cache |-> c, raised |-> TRUE]
    ELSE [cache |-> Unlink(c, k), raised |-> ~(t < c.expires[k])]

\* ---- the three network operations -----------------------------------------
\* faulty variant: every status that is not a server refusal counts as success
StatusOk_lax(resp) == resp.code \in {"200", "500"}

\* response.status_code == 200
StatusOk(resp) == resp.code = "200"

\* result.get("allowed", False)
Allowed(body) == IF body.allowed = "absent" THEN "false" ELSE body.allowed

\* faulty variant: any status field counts as success
Success_any(body) == body.status # "absent"

\* result.get("status") == "success"
Success(body) == body.status = "success"

\* faulty variant: the entry is left in the cache
_invalidate_cache_kept(c, key, t1, t2) == [cache |-> c, raised |-> FALSE]

\* faulty variant: the whole cache is emptied
_invalidate_cache_clear(c, key, t1, t2) ==
    [cache |-> EmptyCache, raised |-> FALSE]

\* _invalidate_cache: membership test at t1, deletion at t2
_invalidate_cache(c, key, t1, t2) ==
    IF Contains(c, key, t1) THEN DelItem(c, key, t2)
    ELSE [cache |-> c, raised |-> FALSE]

\* faulty variant: a failed request is posted once more
Failed_retry(c, net) ==
    [cache |-> c, ret |-> "false", raised |-> FALSE, net |-> net + 1,
     stored |-> FALSE, twice |-> FALSE]

\* a call that returns False without a second access to the cache
Failed(c, net) ==
    [cache |-> c, ret |-> "false", raised |-> FALSE, net |-> net,
     stored |-> FALSE, twice |-> FALSE]

\* check, from the cache lookup on: the cache is tested at t1; a hit reads
\* the entry at t2 outside the try block, a miss posts the request and stores
\* the answer at t2 inside it.  net counts the requests posted, stored tells
\* whether the answer was cached, twice whether the cache was accessed again.
CheckOutcome(c, key, resp, t1, t2, maxsize, ttl) ==
    IF Contains(c, key, t1)
    THEN LET g == GetItem(c, key, t2)
         IN  [cache |-> g.cache, ret |-> g.value, raised |-> g.raised,
              net |-> 0, stored |-> FALSE, twice |-> TRUE]
    ELSE IF resp.code = "error" THEN Failed(c, 1)
         ELSE IF ~StatusOk(resp) THEN Failed(c, 1)
         ELSE IF resp.body.kind # "object" THEN Failed(c, 1)
         ELSE LET s == SetItem(c, key, Allowed(resp.body), t2, maxsize, ttl)
              IN  [cache |-> s.cache,
                   ret |-> IF s.raised THEN "false" ELSE Allowed(resp.body),
                   raised |-> FALSE, net |-> 1, stored |-> ~s.raised,
                   twice |-> TRUE]

\* grant and revoke share one body: post, then invalidate on success; every
\* exception inside the try block, the cache's KeyError included, is logged
\* and turned into False.
MutateOutcome(c, key, resp, t1, t2) ==
    IF resp.code = "error" THEN Failed(c, 1)
    ELSE IF ~StatusOk(resp) THEN Failed(c, 1)
    ELSE IF resp.body.kind # "object" THEN Failed(c, 1)
    ELSE IF ~Success(resp.body) THEN Failed(c, 1)
    ELSE LET i == _invalidate_cache(c, key, t1, t2)
         IN  [cache |-> i.cache,
              ret |-> IF i.raised THEN "false" ELSE "true",
              raised |-> FALSE, net |-> 1, stored |-> FALSE,
              twice |-> Contains(c, key, t1)]

\* ---- the remote authorization service --------------------------------------
\* The service keeps relationship tuples; a check asks whether the tuple is
\* present, a grant adds it and a revoke removes it.
Tuple(user, relation, resource) == <<user, relation, resource>>

RemoteCheck(store, tuple) ==
    Resp("200", Body("object", IF tuple \in store THEN "true" ELSE "false",
                     "absent"))

RemoteApply(store, op, tuple) ==
    IF op = "grant" THEN store \cup {tuple} ELSE store \ {tuple}

RemoteDone == Resp("200", Body("object", "absent", "success"))

\* ---- the client as a state machine ----------------------------------------
\* last records the most recent call: always the operation, what it returned
\* or whether it raised, and the number of requests it posted; and, by the
\* kind of observation (history) the run was started with,
\*   "calls"          the call's arguments, the response it consumed
\*                    (NoResp when it posted no request) and whether the
\*                    cache held the call's key when the call started (hit);
\*   "answers"        what ref said of the call's key when the call started;
\*   "invalidations"  what invalidated said of the call's key;
\*   "requests"       the call's arguments, the request it sent and, for an
\*                    answer from the cache, the request that produced it;
\*   "receipts"       what born said of the call's key;
\*   "remote"         as "calls", next to the tuples the service holds;
\*   "callers"        the call of whichever concurrent caller returned last.
\*
\* The history variables are kept by the rules the specification states and
\* are never read by the client:
\*   ref          the answers stored by check, least recently used first:
\*                [key, value, at, user, relation, resource, read], read
\*                telling whether a hit returned the answer at a later
\*                instant than it was stored.  A hit or an insertion
\*                moves the key to the end; an insertion first
\*                drops the entries whose time-to-live has elapsed and then,
\*                at capacity, the first entry; a grant/revoke that returns
\*                True drops its key.
\*   invalidated  the keys the cache held when a grant/revoke of the key
\*                started that returned True, with no check of the key
\*                since; each with the value the cache held for it.
\*   born         ("requests") for every key in the cache, the request whose
\*                answer is stored; ("receipts") for every key, the last
\*                answer a check stored since the last grant/revoke of the
\*                key that returned True: [value, rcv, at], received at rcv
\*                and stored at at.
NoResp == Resp("none", NoBody)

\* the JSON body of a request; grant and revoke send no contextualTuples
Request(user, relation, resource, ctx) ==
    [user |-> user, relation |-> relation, object |-> resource,
     contextualTuples |-> ctx]

NoRequest == Request("", "", "", "none")

\* contextual_tuples or []
OrEmpty(contextual_tuples) ==
    IF contextual_tuples \in {"None", "[]"} THEN "[]" ELSE contextual_tuples

\* self.headers, derived once from the tenant and the token
Headers(tok) ==
    [h \in {"Content-Type", "X-Tenant-ID"}
            \cup (IF tok # "" THEN {"Authorization"} ELSE {}) |->
        CASE h = "Content-Type" -> "application/json"
          [] h = "X-Tenant-ID" -> Tenant
          [] h = "Authorization" -> "Bearer " \o tok]

\* faulty variant: the accessor hands out the headers of the requests
get_auth_headers_all == Headers(token)

get_auth_headers == [h \in {"X-Tenant-ID"} |-> Tenant]

NoCall ==
    [op |-> "none", user |-> "", permission |-> "", resource |-> "",
     resp |-> NoResp, ret |-> "none", raised |-> FALSE, net |-> 0,
     stale |-> "none", expect |-> "none", owner |-> "none",
     elapsed |-> FALSE, wasRead |-> FALSE, evicted |-> {}, victim |-> {},
     outdated |-> FALSE, hit |-> FALSE, sent |-> NoRequest,
     ctx |-> "none", from |-> NoRequest, hdrs |-> EmptyFn, late |-> FALSE]

\* a caller that is not inside a call
Idle ==
    [pc |-> "idle", op |-> "none", user |-> "", relation |-> "",
     resource |-> "", value |-> "none", pre |-> {}, old |-> FALSE,
     sawOld |-> FALSE]

KeyOf(call) ==
    _get_cache_key(call.user, _map_permission_to_relation(call.permission),
                   call.resource)

Without(r, k) == SelectSeq(r, LAMBDA e : e.key # k)

Live(r, t, ttl) == SelectSeq(r, LAMBDA e : t < e.at + ttl)

Has(r, k) == \E i \in 1 .. Len(r) : r[i].key = k

Entry(r, k) == r[CHOOSE i \in 1 .. Len(r) : r[i].key = k]

Start ==
    /\ cache_maxsize \in 0 .. MaxSize
    /\ cache_ttl \in 0 .. MaxTtl
    /\ cache = EmptyCache
    /\ now = 0
    /\ last = NoCall
    /\ ref = <<>>
    /\ invalidated = EmptyFn
    /\ token = ""
    /\ remote = {}
    /\ procs = [p \in Callers |-> Idle]
    /\ born = EmptyFn

Init == Start /\ history = "calls"

InitAnswers == Start /\ history = "answers"

InitInvalidations == Start /\ history = "invalidations"

\* time passes between two calls
Tick ==
    /\ now < MaxTime
    /\ now' = now + 1
    /\ UNCHANGED <<cache_maxsize, cache_ttl, cache, last, history, ref,
                   invalidated, token, remote, procs, born>>

Returned(op, o) ==
    [NoCall EXCEPT !.op = op, !.ret = o.ret, !.raised = o.raised,
                   !.net = o.net]

Called(op, user, permission, resource, resp, o) ==
    [Returned(op, o) EXCEPT !.user = user, !.permission = permission,
                            !.resource = resource, !.resp = resp]

\* what ref says of a check of key that tests the cache at t1 and accesses
\* it again at t2
Answered(key, user, relation, resource, t1, t2, o) ==
    LET known == Has(ref, key)
        live == Live(ref, t2, cache_ttl)
    IN  [Returned("check", o) EXCEPT
           !.expect = IF Has(live, key) THEN Entry(live, key).value
                      ELSE "none",
           !.owner = IF ~Has(live, key) THEN "none"
                     ELSE IF <<Entry(live, key).user, Entry(live, key).relation,
                               Entry(live, key).resource>>
                             = <<user, relation, resource>>
                          THEN "same" ELSE "other",
           !.elapsed = known /\ t1 >= Entry(ref, key).at + cache_ttl,
           !.wasRead = known /\ Entry(ref, key).read,
           !.evicted = IF o.stored
                       THEN {k \in DOMAIN cache.data :
                               /\ t2 < cache.expires[k]
                               /\ k \notin DOMAIN o.cache.data}
                       ELSE {},
           !.victim = IF /\ o.stored
                         /\ ~known
                         /\ live = ref
                         /\ Len(ref) = cache_maxsize
                      THEN {Head(ref)} ELSE {}]

\* ref after that check
CheckRef(key, user, relation, resource, t2, o) ==
    IF o.stored
    THEN LET r1 == Without(Live(ref, t2, cache_ttl), key)
             r2 == IF Len(r1) >= cache_maxsize THEN Tail(r1) ELSE r1
         IN  Append(r2, [key |-> key, value |-> o.ret, at |-> t2,
                         user |-> user, relation |-> relation,
                         resource |-> resource, read |-> FALSE])
    ELSE IF Has(ref, key) /\ o.net = 0 /\ ~o.raised
         THEN Append(Without(ref, key),
                     [Entry(ref, key) EXCEPT
                        !.read = @ \/ t2 > Entry(ref, key).at])
         ELSE ref

\* what a call sent and, for an answer from the cache, the request that
\* produced the answer
Requested(op, user, permission, resource, ctx, o, request, key) ==
    [Returned(op, o) EXCEPT
       !.user = user, !.permission = permission, !.resource = resource,
       !.ctx = ctx, !.hit = Contains(cache, key, now),
       !.sent = IF o.net = 0 THEN NoRequest ELSE request,
       !.from = IF op = "check" /\ o.net = 0 /\ ~o.raised /\ key \in DOMAIN born
                THEN born[key] ELSE NoRequest]

\* what born says of a check of key that starts at t1: the answer owed, and
\* whether a time-to-live has passed since it was stored (elapsed) or since
\* its response was received (late)
Received(key, t1, o) ==
    LET known == key \in DOMAIN born
    IN  [Returned("check", o) EXCEPT
           !.expect = IF known THEN born[key].value ELSE "none",
           !.elapsed = known /\ t1 >= born[key].at + cache_ttl,
           !.late = known /\ t1 >= born[key].rcv + cache_ttl]

Check(user, permission, resource, contextual_tuples, resp, d) ==
    LET relation == _map_permission_to_relation(permission)
        key == _get_cache_key(user, relation, resource)
        request == Request(user, relation, resource,
                           OrEmpty(contextual_tuples))
        t1 == now
        t2 == now + d
    IN  /\ t2 <= MaxTime
        /\ \E o \in {CheckOutcome(cache, key, resp, t1, t2,
                                  cache_maxsize, cache_ttl)} :
             /\ (o.net = 0) = (resp = NoResp)
             /\ d = 0 \/ o.twice
             /\ cache' = o.cache
             /\ last' =
                  CASE history \in {"calls", "remote"} ->
                         [Called("check", user, permission, resource, resp, o)
                            EXCEPT !.hit = Contains(cache, key, now)]
                    [] history = "answers" ->
                         Answered(key, user, relation, resource, t1, t2, o)
                    [] history = "invalidations" ->
                         [Returned("check", o) EXCEPT
                            !.stale = IF key \in DOMAIN invalidated
                                      THEN invalidated[key] ELSE "none"]
                    [] history = "requests" ->
                         Requested("check", user, permission, resource,
                                   OrEmpty(contextual_tuples), o, request, key)
                    [] history = "receipts" -> Received(key, t1, o)
             /\ ref' = IF history = "answers"
                       THEN CheckRef(key, user, relation, resource, t2, o)
                       ELSE ref
             /\ \E rcv \in IF history = "receipts" THEN t1 .. t2 ELSE {t2} :
                  born' =
                    CASE history = "requests" ->
                           Restrict(IF o.stored THEN Put(born, key, request)
                                    ELSE born, DOMAIN o.cache.data)
                      [] history = "receipts" /\ o.stored ->
                           Put(born, key,
                               [value |-> o.ret, rcv |-> rcv, at |-> t2])
                      [] OTHER -> born
        /\ invalidated' = Drop(invalidated, key)
        /\ now' = t2
        /\ UNCHANGED <<cache_maxsize, cache_ttl, history, token, remote, procs>>

\* the client's side of a grant/revoke
MutateCall(op, user, permission, resource, resp, d) ==
    LET relation == _map_permission_to_relation(permission)
        key == _get_cache_key(user, relation, resource)
    IN  /\ now + d <= MaxTime
        /\ \E o \in {MutateOutcome(cache, key, resp, now, now + d)} :
             /\ d = 0 \/ o.twice
             /\ cache' = o.cache
             /\ last' =
                  CASE history \in {"calls", "remote"} ->
                         [Called(op, user, permission, resource, resp, o)
                            EXCEPT !.hit = Contains(cache, key, now)]
                    [] history = "requests" ->
                         Requested(op, user, permission, resource, "none", o,
                                   Request(user, relation, resource, "none"),
                                   key)
                    [] OTHER -> Returned(op, o)
             /\ born' =
                  CASE history = "requests" -> Restrict(born, DOMAIN o.cache.data)
                    [] history = "receipts" /\ o.ret = "true" -> Drop(born, key)
                    [] OTHER -> born
             /\ ref' = IF history = "answers" /\ o.ret = "true"
                       THEN Without(ref, key) ELSE ref
             /\ invalidated' =
                  IF /\ history = "invalidations" /\ o.ret = "true"
                     /\ Contains(cache, key, now)
                  THEN Put(invalidated, key, cache.data[key])
                  ELSE invalidated
        /\ now' = now + d
        /\ UNCHANGED <<cache_maxsize, cache_ttl, history, token, procs>>

\* a grant/revoke whose response is given; what the service did is not told
Mutate(op, user, permission, resource, resp, d) ==
    /\ MutateCall(op, user, permission, resource, resp, d)
    /\ UNCHANGED remote

\* a grant/revoke answered by the service: the service applies the request
\* or not and its answer arrives or is lost; an answer that arrives reports
\* what the service did
Served(op, user, permission, resource, applied, lost, d) ==
    /\ lost \/ applied
    /\ MutateCall(op, user, permission, resource,
                  IF lost THEN Resp("error", NoBody) ELSE RemoteDone, d)
    /\ remote' = IF applied
                 THEN RemoteApply(remote, op,
                                  Tuple(user,
                                        _map_permission_to_relation(permission),
                                        resource))
                 ELSE remote

Grant(user, permission, resource, resp, d) ==
    Mutate("grant", user, permission, resource, resp, d)

Revoke(user, permission, resource, resp, d) ==
    Mutate("revoke", user, permission, resource, resp, d)

\* get_auth_headers: the headers it returns are kept in last
GetAuthHeaders ==
    /\ last' = [NoCall EXCEPT !.op = "get_auth_headers",
                              !.hdrs = get_auth_headers]
    /\ UNCHANGED <<cache_maxsize, cache_ttl, cache, now, history, ref,
                   invalidated, token, remote, procs, born>>

Next ==
    \/ Tick
    \/ GetAuthHeaders
    \/ \E u \in Users, p \in Permissions, r \in Resources, d \in Delay :
          \/ \E resp \in CheckResponses \cup {NoResp} :
                Check(u, p, r, "None", resp, d)
          \/ \E resp \in MutateResponses : Grant(u, p, r, resp, d)
          \/ \E resp \in MutateResponses : Revoke(u, p, r, resp, d)

\* the client observed call by call
Spec == Init /\ [][Next]_vars

\* the client observed through the answers its checks stored
SpecAnswers == InitAnswers /\ [][Next]_vars

\* the client observed through the keys its grants and revokes invalidated
SpecInvalidations == InitInvalidations /\ [][Next]_vars

\* The requests the client sends, for every permission name, contextual
\* tuples and token; the service answers a check with 200 and a boolean or
\* fails, and a grant/revoke with 200 and success or fails.  The clock stands
\* still: expiry plays no part in what is sent.
InitRequests ==
    /\ cache_maxsize \in 0 .. MaxSize
    /\ cache_ttl \in 0 .. MaxTtl
    /\ cache = EmptyCache
    /\ now = 0
    /\ last = NoCall
    /\ ref = <<>>
    /\ invalidated = EmptyFn
    /\ token \in Tokens
    /\ remote = {}
    /\ procs = [p \in Callers |-> Idle]
    /\ born = EmptyFn
    /\ history = "requests"

NextRequests ==
    \/ GetAuthHeaders
    \/ \E p \in AllPermissions :
          \/ \E ctx \in ContextualTuples,
                resp \in {NoResp, Resp("error", NoBody),
                          Resp("200", Body("object", "true", "absent")),
                          Resp("200", Body("object", "false", "absent"))} :
                Check("a", p, "d", ctx, resp, 0)
          \/ \E resp \in {Resp("error", NoBody), RemoteDone} :
                \/ Grant("a", p, "d", resp, 0)
                \/ Revoke("a", p, "d", resp, 0)

SpecRequests == InitRequests /\ [][NextRequests]_vars

\* One caller and the service: the tuples change by this client's grants and
\* revokes only and a check is decided by the presence of its tuple.
InitRemote == Start /\ history = "remote"

NextRemote ==
    \/ Tick
    \/ \E p \in {"read", "write"}, d \in Delay :
          \/ \E resp \in {NoResp, Resp("error", NoBody),
                          RemoteCheck(remote,
                                      Tuple("a", _map_permission_to_relation(p),
                                            "d"))} :
                Check("a", p, "d", "None", resp, d)
          \/ \E op \in {"grant", "revoke"}, applied, lost \in BOOLEAN :
                Served(op, "a", p, "d", applied, lost, d)

SpecRemote == InitRemote /\ [][NextRemote]_vars

\* The client observed through the time its answers were received and stored;
\* a response arrives at some instant between the miss and the insertion.
InitReceipts == Start /\ history = "receipts"

NextReceipts ==
    \/ Tick
    \/ \E p \in {"read", "write"}, d \in Delay :
          \/ \E resp \in {NoResp, Resp("error", NoBody),
                          Resp("200", Body("object", "true", "absent")),
                          Resp("200", Body("object", "false", "absent"))} :
                Check("a", p, "d", "None", resp, d)
          \/ \E resp \in {Resp("error", NoBody), RemoteDone} :
                \/ Grant("a", p, "d", resp, d)
                \/ Revoke("a", p, "d", resp, d)

SpecReceipts == InitReceipts /\ [][NextReceipts]_vars


\* ---- concurrent callers on one client --------------------------------------
\* Every caller runs one call at a time; a step is one access to the cache or
\* one exchange with the service, and steps of different callers interleave
\* freely.  pc is the caller's position:
\*   "read"    check found the key in the cache and is about to read it
\*   "post"    the request is posted, the service has not answered
\*   "store"   check has the answer (value) and is about to cache it
\*   "test"    grant/revoke got its success and is about to test the cache
\*   "delete"  grant/revoke found the key and is about to delete it
\* History kept with an answer (a caller's value or a cache entry, in born):
\*   pre   the callers whose grant/revoke of the tuple the service applied
\*         after it produced the answer and that have not returned yet;
\*   old   a grant/revoke applied after the answer has returned True.
\* sawOld tells that the entry a check found was old when the check started.
ProcKey(c) == _get_cache_key(c.user, c.relation, c.resource)

Settle(f, p, ok) ==
    [x \in DOMAIN f |->
        [f[x] EXCEPT !.old = @ \/ (ok /\ p \in f[x].pre), !.pre = @ \ {p}]]

Return(op, ret, raised, net, outdated) ==
    [NoCall EXCEPT !.op = op, !.ret = ret, !.raised = raised, !.net = net,
                   !.outdated = outdated]

BeginCheck(p, user, permission, resource) ==
    LET relation == _map_permission_to_relation(permission)
        key == _get_cache_key(user, relation, resource)
        hit == Contains(cache, key, now)
    IN  /\ procs[p].pc = "idle"
        /\ procs' = [procs EXCEPT ![p] =
                       [Idle EXCEPT !.pc = IF hit THEN "read" ELSE "post",
                                    !.op = "check", !.user = user,
                                    !.relation = relation,
                                    !.resource = resource,
                                    !.sawOld = hit /\ key \in DOMAIN born
                                                   /\ born[key].old]]
        /\ UNCHANGED <<cache_maxsize, cache_ttl, cache, now, last, history,
                       ref, invalidated, token, remote, born>>

ReadEntry(p) ==
    /\ procs[p].pc = "read"
    /\ \E g \in {GetItem(cache, ProcKey(procs[p]), now)} :
         /\ cache' = g.cache
         /\ last' = Return("check", g.value, g.raised, 0,
                           procs[p].sawOld /\ ~g.raised)
    /\ procs' = [procs EXCEPT ![p] = Idle]
    /\ UNCHANGED <<cache_maxsize, cache_ttl, now, history, ref, invalidated,
                   token, remote, born>>

AnswerCheck(p, lost) ==
    LET c == procs[p]
        resp == IF lost THEN Resp("error", NoBody)
                ELSE RemoteCheck(remote, Tuple(c.user, c.relation, c.resource))
    IN  /\ c.pc = "post" /\ c.op = "check"
        /\ IF resp.code = "error" \/ ~StatusOk(resp)
              \/ resp.body.kind # "object"
           THEN /\ last' = Return("check", "false", FALSE, 1, FALSE)
                /\ procs' = [procs EXCEPT ![p] = Idle]
           ELSE /\ last' = last
                /\ procs' = [procs EXCEPT ![p].pc = "store",
                                          ![p].value = Allowed(resp.body)]
        /\ UNCHANGED <<cache_maxsize, cache_ttl, cache, now, history, ref,
                       invalidated, token, remote, born>>

StoreEntry(p) ==
    LET c == procs[p]
        key == ProcKey(c)
    IN  /\ c.pc = "store"
        /\ \E s \in {SetItem(cache, key, c.value, now, cache_maxsize,
                             cache_ttl)} :
             /\ cache' = s.cache
             /\ last' = Return("check", IF s.raised THEN "false" ELSE c.value,
                               FALSE, 1, FALSE)
             /\ born' = Restrict(IF s.raised THEN born
                                 ELSE Put(born, key,
                                          [pre |-> c.pre, old |-> c.old]),
                                 DOMAIN s.cache.data)
        /\ procs' = [q \in Callers |->
                       IF q = p THEN Idle
                       ELSE IF procs[q].pc = "read" /\ ProcKey(procs[q]) = key
                            THEN [procs[q] EXCEPT !.sawOld = FALSE]
                            ELSE procs[q]]
        /\ UNCHANGED <<cache_maxsize, cache_ttl, now, history, ref,
                       invalidated, token, remote>>

BeginMutate(p, op, user, permission, resource) ==
    /\ procs[p].pc = "idle"
    /\ procs' = [procs EXCEPT ![p] =
                   [Idle EXCEPT !.pc = "post", !.op = op, !.user = user,
                                !.relation =
                                    _map_permission_to_relation(permission),
                                !.resource = resource]]
    /\ UNCHANGED <<cache_maxsize, cache_ttl, cache, now, last, history, ref,
                   invalidated, token, remote, born>>

\* the service applies the request or not and its answer arrives or is lost;
\* an answer that arrives reports what the service did
AnswerMutate(p, applied, lost) ==
    LET c == procs[p]
        tuple == Tuple(c.user, c.relation, c.resource)
        resp == IF lost THEN Resp("error", NoBody) ELSE RemoteDone
        ok == /\ resp.code # "error" /\ StatusOk(resp)
              /\ resp.body.kind = "object" /\ Success(resp.body)
        later(x) == [x EXCEPT !.pre = @ \cup {p}]
    IN  /\ c.pc = "post" /\ c.op \in {"grant", "revoke"}
        /\ lost \/ applied
        /\ remote' = IF applied THEN RemoteApply(remote, c.op, tuple)
                     ELSE remote
        /\ IF ok
           THEN /\ last' = last
                /\ procs' = [q \in Callers |->
                               IF q = p THEN [c EXCEPT !.pc = "test"]
                               ELSE IF /\ procs[q].pc = "store"
                                       /\ ProcKey(procs[q]) = ProcKey(c)
                                    THEN later(procs[q]) ELSE procs[q]]
                /\ born' = [k \in DOMAIN born |->
                              IF k = ProcKey(c) THEN later(born[k])
                              ELSE born[k]]
           ELSE /\ last' = Return(c.op, "false", FALSE, 1, FALSE)
                /\ procs' = [procs EXCEPT ![p] = Idle]
                /\ born' = born
        /\ UNCHANGED <<cache_maxsize, cache_ttl, cache, now, history, ref,
                       invalidated, token>>

TestEntry(p) ==
    LET c == procs[p]
    IN  /\ c.pc = "test"
        /\ IF Contains(cache, ProcKey(c), now)
           THEN /\ procs' = [procs EXCEPT ![p].pc = "delete"]
                /\ UNCHANGED <<last, born>>
           ELSE /\ last' = Return(c.op, "true", FALSE, 1, FALSE)
                /\ procs' = [Settle(procs, p, TRUE) EXCEPT ![p] = Idle]
                /\ born' = Settle(born, p, TRUE)
        /\ UNCHANGED <<cache_maxsize, cache_ttl, cache, now, history, ref,
                       invalidated, token, remote>>

DeleteEntry(p) ==
    LET c == procs[p]
    IN  /\ c.pc = "delete"
        /\ \E i \in {DelItem(cache, ProcKey(c), now)} :
             /\ cache' = i.cache
             /\ last' = Return(c.op, IF i.raised THEN "false" ELSE "true",
                               FALSE, 1, FALSE)
             /\ procs' = [Settle(procs, p, ~i.raised) EXCEPT ![p] = Idle]
             /\ born' = Restrict(Settle(born, p, ~i.raised),
                                 DOMAIN i.cache.data)
        /\ UNCHANGED <<cache_maxsize, cache_ttl, now, history, ref,
                       invalidated, token, remote>>

InitCallers == Start /\ history = "callers"

\* The clock stands still here: what happens is due to the interleaving of
\* the callers' steps alone.  Expiry in the course of a call is part of Next.
NextCallers ==
    \E p \in Callers :
          \/ \E u \in {"a"}, perm \in {"read", "write"}, r \in Resources :
                \/ BeginCheck(p, u, perm, r)
                \/ BeginMutate(p, "grant", u, perm, r)
                \/ BeginMutate(p, "revoke", u, perm, r)
          \/ ReadEntry(p)
          \/ \E lost \in BOOLEAN : AnswerCheck(p, lost)
          \/ StoreEntry(p)
          \/ \E applied, lost \in BOOLEAN : AnswerMutate(p, applied, lost)
          \/ TestEntry(p)
          \/ DeleteEntry(p)

\* the client called by concurrent callers
SpecCallers == InitCallers /\ [][NextCallers]_vars

\* ---- properties ------------------------------------------------------------
Holds(k) == Contains(cache, k, now)

\* C1 (SpecInvalidations): after a grant/revoke of a key has returned True, the
\* cache holds no entry for that key until a check of the key runs, and that
\* next check of the key posts a fresh request instead of answering from the
\* cache.
C1_FreshAfterGrant ==
    /\ \A k \in DOMAIN invalidated : ~Holds(k)
    /\ (last.op = "check" /\ last.stale # "none")
          => (last.net = 1 /\ ~last.raised)

\* a false cached before the grant, a fresh true after it
C1_Witness ==
    /\ last.op = "check" /\ last.stale = "false"
    /\ last.net = 1 /\ last.ret = "true"

\* C2 (Spec): revoke returns True exactly when it received HTTP 200 with
\* status "success", and the cache then holds no entry for its key; in every
\* other case it returns False.
C2_RevokeSymmetric ==
    last.op = "revoke" =>
        IF /\ last.resp.code = "200"
           /\ last.resp.body.kind = "object"
           /\ last.resp.body.status = "success"
        THEN last.ret = "true" /\ ~Holds(KeyOf(last))
        ELSE last.ret = "false"

\* C3 (SpecAnswers): while an answer b stored by a check is owed (its
\* time-to-live has not elapsed when the cache is read, and it was neither
\* evicted nor invalidated), a check of the key returns b and posts no
\* request.
C3_HitWithinTtl ==
    (last.op = "check" /\ last.expect # "none")
        => (last.ret = last.expect /\ last.net = 0 /\ ~last.raised)

C3_Witness ==
    /\ last.op = "check" /\ last.expect = "true"
    /\ last.ret = "true" /\ last.net = 0
    /\ now > 0

\* C4 (Spec): a check never raises and always returns a boolean.
C4_CheckNeverRaises ==
    last.op = "check" => (~last.raised /\ last.ret \in {"true", "false"})

\* C5 (Spec): a check whose request fails by transport error or gets a status
\* other than 200 returns False and leaves the cache exactly as it was, so
\* that the cache still does not hold the key.
C5_FailClosed ==
    [][(last'.op = "check" /\ last'.resp.code \in {"error", "500"})
          => /\ last'.ret = "false" /\ ~last'.raised /\ last'.net = 1
             /\ cache' = cache
             /\ ~Contains(cache', KeyOf(last'), now')]_vars

C5_Witness ==
    /\ last.op = "check" /\ last.resp.code = "500"
    /\ last.ret = "false"
    /\ KeyOf(last) \in DOMAIN cache.data
    /\ Cardinality(DOMAIN cache.data) = 2

\* C6 (Spec): a check that misses and receives HTTP 200 with a JSON object
\* returns the object's allowed value (False when absent) and the cache then
\* holds that value under the key, whatever the capacity and time-to-live.
C6_StoreAndReturn ==
    (/\ last.op = "check" /\ last.net = 1
     /\ last.resp.code = "200" /\ last.resp.body.kind = "object")
        => /\ last.ret = Allowed(last.resp.body)
           /\ KeyOf(last) \in DOMAIN cache.data
           /\ cache.data[KeyOf(last)] = Allowed(last.resp.body)

\* C7 (SpecAnswers): once the time-to-live has elapsed since a check stored
\* an answer for a key, a check of the key posts a fresh request, however the
\* entry was read in between.
C7_ExpiryFromInsertion ==
    (last.op = "check" /\ last.elapsed) => (last.net = 1 /\ ~last.raised)

C7_Witness ==
    /\ last.op = "check" /\ last.elapsed /\ last.wasRead
    /\ last.net = 1

\* C8 (Spec): a grant that fails (transport error, a status other than 200
\* whatever its body, or a 200 whose status field is not "success") returns
\* False and leaves the cache exactly as it was.
GrantFailure(resp) ==
    \/ resp.code # "200"
    \/ resp.body.kind = "object" /\ resp.body.status # "success"

C8_FailedGrantFrame ==
    [][(last'.op = "grant" /\ GrantFailure(last'.resp))
          => (last'.ret = "false" /\ cache' = cache)]_vars

C8_Witness ==
    /\ last.op = "grant" /\ last.resp.code = "500"
    /\ last.resp.body.status = "success"
    /\ last.ret = "false" /\ Holds(KeyOf(last))

\* C9 (SpecAnswers): the cache never holds more unexpired entries than its
\* capacity, and a check that inserts a new key into a full cache of
\* unexpired entries removes exactly the least recently used one, where an
\* insertion by check and a hit in check are the uses.
C9_BoundedLru ==
    /\ Cardinality({k \in DOMAIN cache.data : Holds(k)}) <= cache_maxsize
    /\ (last.op = "check" /\ last.victim # {})
          => last.evicted = {e.key : e \in last.victim}

\* the entry removed was stored after the one that stayed, which a hit had
\* made the more recently used
C9_Witness ==
    /\ last.op = "check" /\ last.victim # {}
    /\ last.evicted = {e.key : e \in last.victim}
    /\ cache_maxsize = 2 /\ Len(ref) = 2
    /\ \E e \in last.victim : ref[1].at < e.at

\* C10 (SpecAnswers): keys of distinct tuples differ, so a check is never
\* answered from the entry another (user, relation, resource) stored.
C10_NoCollision == last.op = "check" => last.owner # "other"

\* C11 (SpecCallers): with concurrent callers, under every interleaving of
\* their cache steps, no call raises to its caller and the cache never holds
\* more entries than its capacity.
C11_ConcurrentSafety ==
    /\ ~last.raised
    /\ Cardinality(DOMAIN cache.data) <= cache_maxsize

\* C15 (SpecCallers): a check that starts after a grant/revoke of its tuple has
\* returned True never returns an answer the service produced before it
\* applied that grant/revoke.
C15_FreshAfterConcurrentGrant == ~last.outdated

\* C12 (Spec): a check that finds its key in the cache posts no request, a
\* check that does not posts exactly one, and every grant and every revoke
\* posts exactly one whatever the cache holds.
C12_OneRequest ==
    /\ last.op = "check" => last.net = (IF last.hit THEN 0 ELSE 1)
    /\ last.op \in {"grant", "revoke"} => last.net = 1

\* a revoke of a cached key and a failed one both posted one request
C12_Witness ==
    /\ last.op = "revoke" /\ last.hit /\ last.net = 1
    /\ last.resp.code = "error"

\* C13 (SpecRequests): the relation of a permission is reader, writer, admin,
\* owner for read, write, admin, owner and the permission itself otherwise;
\* every request carries that relation, a check stores and reads its answer
\* under the key of that relation, and a grant/revoke that returns True
\* leaves no unexpired entry under the key of that relation.
Documented(permission) ==
    IF permission = "read" THEN "reader"
    ELSE IF permission = "write" THEN "writer"
    ELSE IF permission \in {"admin", "owner"} THEN permission
    ELSE permission

C13_MappedRelation ==
    last.op \in {"check", "grant", "revoke"} =>
        LET relation == Documented(last.permission)
            key == Tenant \o ":" \o last.user \o ":" \o relation \o ":"
                     \o last.resource
        IN  /\ last.net = 1 => /\ last.sent.relation = relation
                               /\ last.sent.user = last.user
                               /\ last.sent.object = last.resource
            /\ (last.op = "check" /\ last.net = 1 /\ last.ret = "true"
                  /\ cache_maxsize > 0)
                  => (key \in DOMAIN cache.data /\ born[key].relation = relation)
            /\ (last.op = "check" /\ last.net = 0)
                  => last.from.relation = relation
            /\ (last.op # "check" /\ last.ret = "true")
                  => ~Holds(key)

\* a grant of write removed the entry a check of write had stored
C13_Witness ==
    /\ last.op = "grant" /\ last.permission = "write" /\ last.hit
    /\ last.ret = "true" /\ last.sent.relation = "writer"
    /\ ~Holds("t:a:writer:d")

\* C14 (SpecRequests): get_auth_headers returns the tenant header and nothing
\* else, in particular not the bearer token, with or without a token; and the
\* call leaves the cache and the client's configuration as they were.
C14_TenantHeaderOnly ==
    [][last'.op = "get_auth_headers"
          => /\ DOMAIN last'.hdrs = {"X-Tenant-ID"}
             /\ last'.hdrs["X-Tenant-ID"] = Tenant
             /\ \A h \in DOMAIN last'.hdrs :
                   token # "" => last'.hdrs[h] \notin {token, "Bearer " \o token}
             /\ UNCHANGED <<cache, cache_maxsize, cache_ttl, token>>]_vars

\* called on a client that has a token and a filled cache
C14_Witness ==
    /\ last.op = "get_auth_headers" /\ token = "s3cret"
    /\ "Authorization" \in DOMAIN Headers(token)
    /\ Cardinality(DOMAIN cache.data) = 2

\* C16 (SpecRemote): with one caller, a service whose tuples change by this
\* client's grants and revokes only and that decides a check by the presence
\* of the tuple, an answer check returns from the cache is the service's
\* current decision, also after a grant/revoke that the service applied and
\* whose response was lost.
C16_CacheAgreesWithRemote ==
    (last.op = "check" /\ last.net = 0 /\ ~last.raised)
        => last.ret =
             RemoteCheck(remote,
                         Tuple(last.user,
                               _map_permission_to_relation(last.permission),
                               last.resource)).body.allowed

\* C17 (SpecRequests): an answer check returns from the cache was produced by
\* a request that carried the contextual tuples of the current call.
C17_SameContextualTuples ==
    (last.op = "check" /\ last.net = 0 /\ ~last.raised)
        => last.from.contextualTuples = last.ctx

\* C18 as stated (SpecReceipts): an answer check returns without a request is
\* the allowed value of a 200 response to an earlier check of the key, with no
\* grant/revoke of the key that returned True since, and that response was
\* received less than one time-to-live before the current call.
C18_StalenessFromReceipt ==
    (last.op = "check" /\ last.net = 0 /\ ~last.raised)
        => (last.expect # "none" /\ last.ret = last.expect /\ ~last.late)

\* C18 as amended (SpecReceipts): the same, with the time-to-live counted from
\* the instant the answer was stored in the cache.
C18_StalenessFromInsertion ==
    (last.op = "check" /\ last.net = 0 /\ ~last.raised)
        => (last.expect # "none" /\ last.ret = last.expect /\ ~last.elapsed)

\* an answer served a full time-to-live after its response was received
C18_Witness ==
    /\ last.op = "check" /\ last.net = 0 /\ last.ret = "true"
    /\ last.expect = "true" /\ last.late /\ ~last.elapsed

\* C19 (Spec): a grant/revoke never adds an entry to the cache, and one that
\* returns True leaves every unexpired entry of another key in the cache with
\* its value and its expiry time.
C19_InvalidateOwnKeyOnly ==
    [][last'.op \in {"grant", "revoke"}
          => /\ DOMAIN cache'.data \subseteq DOMAIN cache.data
             /\ last'.ret = "true"
                   => \A k \in DOMAIN cache.data \ {KeyOf(last')} :
                         Contains(cache, k, now)
                            => /\ k \in DOMAIN cache'.data
                               /\ cache'.data[k] = cache.data[k]
                               /\ cache'.expires[k] = cache.expires[k]]_vars

\* a revoke removed its entry and the entry of another user is still held
C19_Witness ==
    /\ last.op = "revoke" /\ last.ret = "true" /\ last.hit
    /\ last.user = "a" /\ ~Holds(KeyOf(last))
    /\ Holds(_get_cache_key("a:b", "b:reader", "d"))

====
